---- MODULE Spec2Model ----
(***************************************************************************)
(* A model of package cspheader: the option value types and their Parse    *)
(* methods, the five default template texts, the preset                     *)
(* SecurityOptionsReactJS and Policy.Load.                                  *)
(*                                                                         *)
(* Go strings are TLA+ strings: \o is concatenation, Len is len(), SubSeq   *)
(* is slicing.  A Go map is a function whose DOMAIN is the key set.         *)
(***************************************************************************)
EXTENDS Integers, Sequences, FiniteSets, TLC

VARIABLES
    pol,                    \* the Policy value Load is called on (the caller's copy is never written)
    pc,                     \* position of the running Load call
    run,                    \* which call of Load on pol this is (1 or 2)
    prev,                   \* what the caller saw returned by the first call
    templateText,           \* Load's copy of the five *TemplateText fields after defaulting
    cspStaticDirectives,    \* pol.cspStaticDirectives of Load's copy
    cspDynamicDirectives,   \* pol.cspDynamicDirectives of Load's copy
    activeCSPs,             \* the slice of fragments built by the flattening loops
    ret,                    \* the pair Load returned
    opt,                    \* rendering machine: the option value a Parse method is called on
    out                     \* rendering machine: what that Parse call returned

vars == <<pol, pc, run, prev, templateText, cspStaticDirectives, cspDynamicDirectives,
          activeCSPs, ret, opt, out>>

loadVars == <<pol, pc, run, prev, templateText, cspStaticDirectives,
              cspDynamicDirectives, activeCSPs, ret>>

(***************************************************************************)
(* Bounds of the model.                                                    *)
(***************************************************************************)
\* longest Values / HostSources / SchemeSources sequence given to a Parse method
MaxValues == 2

(***************************************************************************)
(* Package strings: Contains and Join.                                     *)
(***************************************************************************)
Contains(s, substr) ==
    \E i \in 1..(Len(s) - Len(substr) + 1) : SubSeq(s, i, i + Len(substr) - 1) = substr

RECURSIVE Join(_, _)
Join(elems, sep) ==
    IF Len(elems) = 0 THEN ""
    ELSE IF Len(elems) = 1 THEN elems[1]
    ELSE elems[1] \o sep \o Join(Tail(elems), sep)

(***************************************************************************)
(* The error values Load can return.                                       *)
(***************************************************************************)
NilError == "<nil>"
ErrReportToMissing == "report-to is required if Content-Security-Policy: report-to <value> is set"
ErrReportToMismatch == "report-to target not found"
\* the error of template.Parse on a text that is no template
ErrTemplateParse == "template: unclosed action"
\* the error of Template.Execute on a field the value does not have
ErrTemplateExecute == "template: can't evaluate field"

(***************************************************************************)
(* The default template texts, character for character.                    *)
(***************************************************************************)
TemplateTextSourceOption ==
    "{{ if not .Allow }}'none'{{ else }}" \o
    "{{ if .AllowSelf }}'self'{{ end }}" \o
    "{{ range $v := .Values }} {{$v}}{{ end }}" \o
    "{{ if .UnsafeEval }} 'unsafe-eval'{{ end }}" \o
    "{{ if .WasmUnsafeEval }} 'wasm-unsafe-eval'{{ end }}" \o
    "{{ if .UnsafeHashes }} 'unsafe-hashes'{{ end }}" \o
    "{{ if .UnsafeInline }} 'unsafe-inline'{{ end }}" \o
    "{{ if gt (len .NonceBase64Value) 0 }}{{ .NonceBase64Value}}{{ end }}" \o
    "{{ if gt (len .HashAlgorithmBase64Value) 0 }}{{ .HashAlgorithmBase64Value}}{{ end }}" \o
    "{{ if .StrictDynamic }} 'strict-dynamic'{{ end }}" \o
    "{{ if .ReportSample }} 'report-sample'{{ end }}" \o
    "{{ end }}"

TemplateTextSandbox ==
    "{{ if .AllowDownloads }}allow-downloads{{ end }}" \o
    "{{ if .AllowForms }} allow-forms{{ end }}" \o
    "{{ if .AllowModals }} allow-modals{{ end }}" \o
    "{{ if .AllowOrientationLock }} allow-orientation-lock{{ end }}" \o
    "{{ if .AllowPointerLock }} allow-pointer-lock{{ end }}" \o
    "{{ if .AllowPopups }} allow-popups{{ end }}" \o
    "{{ if .AllowPopupsToEscapeSandbox }} allow-popups-to-escape-sandbox{{ end }}" \o
    "{{ if .AllowPresentation }} allow-presentation{{ end }}" \o
    "{{ if .AllowSameOrigin }} allow-same-origin{{ end }}" \o
    "{{ if .AllowScripts }} allow-scripts{{ end }}" \o
    "{{ if .AllowTopNavigation }} allow-top-navigation{{ end }}" \o
    "{{ if .AllowTopNavigationByUserActivation }} allow-top-navigation-by-user-activation{{ end }}" \o
    "{{ if .AllowTopNavigationToCustomProtocols }} allow-top-navigation-to-custom-protocols{{ end }}"

TemplateTextFrameAncestorOptions ==
    "{{ if not .Allow }}'none'{{ else }}" \o
    "{{ if .AllowSelf }}'self'{{ end }}" \o
    "{{ range $v := .HostSources }} {{$v}}{{ end }}" \o
    "{{ range $v := .SchemeSources }} {{$v}}{{ end }}" \o
    "{{ end }}"

TemplateTextUnquotedOptions == "{{ range $v := .Values }}{{$v}} {{ end }}"

TemplateTextUnquotedOption == "{{ .Value }}"

\* Two caller-supplied template texts: one that template.Parse rejects, and one
\* that parses and whose execution fails on every option type (no such field).
TemplateTextMalformed == "{{ if "
TemplateTextNoSuchField == "{{ .NoSuchField }}"

(***************************************************************************)
(* Template execution, one operator per default text.  "{{ if c }}t{{ end }}"*)
(* writes t when c holds and nothing otherwise; "{{ range $v := s }}a{{$v}}b *)
(* {{ end }}" writes a, the element and b for every element of s in order.   *)
(***************************************************************************)
\* {{ if cond }}text{{ end }}
If(cond, text) == IF cond THEN text ELSE ""

\* {{ range $v := values }} {{$v}}{{ end }}
RECURSIVE RangeSpaceBefore(_)
RangeSpaceBefore(values) ==
    IF Len(values) = 0 THEN ""
    ELSE " " \o Head(values) \o RangeSpaceBefore(Tail(values))

\* {{ range $v := values }}{{$v}} {{ end }}
RECURSIVE RangeSpaceAfter(_)
RangeSpaceAfter(values) ==
    IF Len(values) = 0 THEN ""
    ELSE Head(values) \o " " \o RangeSpaceAfter(Tail(values))

\* ExecuteSourceOption with the {{ else }} lost: 'none' no longer overrides the other fields.
ExecuteSourceOptionNoElse(cso) ==
    If(~cso.Allow, "'none'") \o
    If(cso.AllowSelf, "'self'") \o
    RangeSpaceBefore(cso.Values) \o
    If(cso.UnsafeEval, " 'unsafe-eval'") \o
    If(cso.WasmUnsafeEval, " 'wasm-unsafe-eval'") \o
    If(cso.UnsafeHashes, " 'unsafe-hashes'") \o
    If(cso.UnsafeInline, " 'unsafe-inline'") \o
    If(Len(cso.NonceBase64Value) > 0, cso.NonceBase64Value) \o
    If(Len(cso.HashAlgorithmBase64Value) > 0, cso.HashAlgorithmBase64Value) \o
    If(cso.StrictDynamic, " 'strict-dynamic'") \o
    If(cso.ReportSample, " 'report-sample'")

ExecuteSourceOption(cso) ==
    IF ~cso.Allow THEN "'none'"
    ELSE
        If(cso.AllowSelf, "'self'") \o
        RangeSpaceBefore(cso.Values) \o
        If(cso.UnsafeEval, " 'unsafe-eval'") \o
        If(cso.WasmUnsafeEval, " 'wasm-unsafe-eval'") \o
        If(cso.UnsafeHashes, " 'unsafe-hashes'") \o
        If(cso.UnsafeInline, " 'unsafe-inline'") \o
        If(Len(cso.NonceBase64Value) > 0, cso.NonceBase64Value) \o
        If(Len(cso.HashAlgorithmBase64Value) > 0, cso.HashAlgorithmBase64Value) \o
        If(cso.StrictDynamic, " 'strict-dynamic'") \o
        If(cso.ReportSample, " 'report-sample'")

ExecuteSandbox(so) ==
    If(so.AllowDownloads, "allow-downloads") \o
    If(so.AllowForms, " allow-forms") \o
    If(so.AllowModals, " allow-modals") \o
    If(so.AllowOrientationLock, " allow-orientation-lock") \o
    If(so.AllowPointerLock, " allow-pointer-lock") \o
    If(so.AllowPopups, " allow-popups") \o
    If(so.AllowPopupsToEscapeSandbox, " allow-popups-to-escape-sandbox") \o
    If(so.AllowPresentation, " allow-presentation") \o
    If(so.AllowSameOrigin, " allow-same-origin") \o
    If(so.AllowScripts, " allow-scripts") \o
    If(so.AllowTopNavigation, " allow-top-navigation") \o
    If(so.AllowTopNavigationByUserActivation, " allow-top-navigation-by-user-activation") \o
    If(so.AllowTopNavigationToCustomProtocols, " allow-top-navigation-to-custom-protocols")

ExecuteFrameAncestorOptions(fao) ==
    IF ~fao.Allow THEN "'none'"
    ELSE
        If(fao.AllowSelf, "'self'") \o
        RangeSpaceBefore(fao.HostSources) \o
        RangeSpaceBefore(fao.SchemeSources)

ExecuteUnquotedOptions(uvs) == RangeSpaceAfter(uvs.Values)

ExecuteUnquotedOption(uv) == uv.Value

(***************************************************************************)
(* The Parse methods: execute tmpl on the value into a buffer; return      *)
(* ("", err) when execution fails and (buffer, nil) otherwise.  tmpl is a   *)
(* parsed template, named by its text.                                     *)
(***************************************************************************)
Rendered(text) == [text |-> text, err |-> NilError]
RenderFailed == [text |-> "", err |-> ErrTemplateExecute]

CSPSourceOptionsParse(cso, tmpl) ==
    IF tmpl = TemplateTextSourceOption THEN Rendered(ExecuteSourceOption(cso)) ELSE RenderFailed

UnquotedOptionParse(uv, tmpl) ==
    IF tmpl = TemplateTextUnquotedOption THEN Rendered(ExecuteUnquotedOption(uv)) ELSE RenderFailed

UnquotedOptionsParse(uvs, tmpl) ==
    IF tmpl = TemplateTextUnquotedOptions THEN Rendered(ExecuteUnquotedOptions(uvs)) ELSE RenderFailed

SandboxOptionsParse(so, tmpl) ==
    IF tmpl = TemplateTextSandbox THEN Rendered(ExecuteSandbox(so)) ELSE RenderFailed

FrameAncestorOptionsParse(fao, tmpl) ==
    IF tmpl = TemplateTextFrameAncestorOptions THEN Rendered(ExecuteFrameAncestorOptions(fao))
    ELSE RenderFailed

(***************************************************************************)
(* The option value types and their Go zero values.                        *)
(***************************************************************************)
ZeroCSPSourceOptions ==
    [Allow |-> FALSE, AllowSelf |-> FALSE, Values |-> <<>>,
     UnsafeEval |-> FALSE, WasmUnsafeEval |-> FALSE, UnsafeHashes |-> FALSE,
     UnsafeInline |-> FALSE, NonceBase64Value |-> "", HashAlgorithmBase64Value |-> "",
     StrictDynamic |-> FALSE, ReportSample |-> FALSE]

ZeroUnquotedOption == [Value |-> ""]

ZeroUnquotedOptions == [Values |-> <<>>]

ZeroSandboxOptions ==
    [AllowDownloads |-> FALSE, AllowForms |-> FALSE, AllowModals |-> FALSE,
     AllowOrientationLock |-> FALSE, AllowPointerLock |-> FALSE, AllowPopups |-> FALSE,
     AllowPopupsToEscapeSandbox |-> FALSE, AllowPresentation |-> FALSE,
     AllowSameOrigin |-> FALSE, AllowScripts |-> FALSE, AllowTopNavigation |-> FALSE,
     AllowTopNavigationByUserActivation |-> FALSE,
     AllowTopNavigationToCustomProtocols |-> FALSE]

ZeroFrameAncestorOptions ==
    [Allow |-> FALSE, AllowSelf |-> FALSE, HostSources |-> <<>>, SchemeSources |-> <<>>]

(***************************************************************************)
(* Input values of the rendering machine.                                  *)
(***************************************************************************)
\* source strings a caller writes: non-empty, without spaces
Sources == {"https:", "cdn.example.com"}
Nonces == {"", "'nonce-abc123'"}
Hashes == {"", "'sha256-B2yPHKaXn'"}

SeqsUpTo(S, n) == UNION {[1..k -> S] : k \in 0..n}

AllCSPSourceOptions ==
    [Allow : BOOLEAN, AllowSelf : BOOLEAN, Values : SeqsUpTo(Sources, MaxValues),
     UnsafeEval : BOOLEAN, WasmUnsafeEval : BOOLEAN, UnsafeHashes : BOOLEAN,
     UnsafeInline : BOOLEAN, NonceBase64Value : Nonces, HashAlgorithmBase64Value : Hashes,
     StrictDynamic : BOOLEAN, ReportSample : BOOLEAN]

AllSandboxOptions ==
    [AllowDownloads : BOOLEAN, AllowForms : BOOLEAN, AllowModals : BOOLEAN,
     AllowOrientationLock : BOOLEAN, AllowPointerLock : BOOLEAN, AllowPopups : BOOLEAN,
     AllowPopupsToEscapeSandbox : BOOLEAN, AllowPresentation : BOOLEAN,
     AllowSameOrigin : BOOLEAN, AllowScripts : BOOLEAN, AllowTopNavigation : BOOLEAN,
     AllowTopNavigationByUserActivation : BOOLEAN,
     AllowTopNavigationToCustomProtocols : BOOLEAN]

AllFrameAncestorOptions ==
    [Allow : BOOLEAN, AllowSelf : BOOLEAN,
     HostSources : SeqsUpTo({"cdn.example.com", "*.example.org"}, MaxValues),
     SchemeSources : SeqsUpTo({"https:", "data:"}, MaxValues)]

AllUnquotedOptions == [Values : SeqsUpTo({"/csp", "https://r.example/csp"}, MaxValues)]

AllUnquotedOption == [Value : {"", "default", "csp-endpoint"}]

(***************************************************************************)
(* Policy.  The exported fields only; the parsed templates are named by    *)
(* their texts (templateText) and the two directive maps are variables.    *)
(***************************************************************************)
ZeroPolicy ==
    [SourceOptionTemplateText |-> "",
     SandboxOptionTemplateText |-> "",
     FrameAncestorOptionsTemplateText |-> "",
     UnquotedOptionsTextTemplateText |-> "",
     UnquotedOptionTextTemplateText |-> "",
     CSP |-> [DefaultSrc |-> ZeroCSPSourceOptions,
              ChildSrc |-> ZeroCSPSourceOptions,
              ConnectSrc |-> ZeroCSPSourceOptions,
              FontSrc |-> ZeroCSPSourceOptions,
              FrameSrc |-> ZeroCSPSourceOptions,
              ImgSrc |-> ZeroCSPSourceOptions,
              ManifestSrc |-> ZeroCSPSourceOptions,
              MediaSrc |-> ZeroCSPSourceOptions,
              ObjectSrc |-> ZeroCSPSourceOptions,
              PrefetchSrc |-> ZeroCSPSourceOptions,
              ScriptSrc |-> ZeroCSPSourceOptions,
              ScriptSrcElem |-> ZeroCSPSourceOptions,
              ScriptSrcAttr |-> ZeroCSPSourceOptions,
              StyleSrc |-> ZeroCSPSourceOptions,
              StyleSrcElem |-> ZeroCSPSourceOptions,
              StyleSrcAttr |-> ZeroCSPSourceOptions,
              WorkerSrc |-> ZeroCSPSourceOptions,
              BaseURI |-> ZeroCSPSourceOptions,
              Sandbox |-> ZeroSandboxOptions,
              FormAction |-> ZeroCSPSourceOptions,
              FrameAncestors |-> ZeroFrameAncestorOptions,
              ReportURI |-> ZeroUnquotedOptions,
              ReportTo |-> ZeroUnquotedOption,
              UpgradeInsecureRequests |-> FALSE],
     ReportTo |-> [ReportTo |-> ""]]

\* the Report-To payload of the preset
ReactJSReportTo ==
    "{\"group\":\"default\",\"max_age\": 86400, \"endpoints\": [{\"url\":\"/_/csp-reports\" }]}"

SecurityOptionsReactJS ==
    [ZeroPolicy EXCEPT
        !.CSP.DefaultSrc = [ZeroCSPSourceOptions EXCEPT !.Allow = FALSE],
        !.CSP.ScriptSrc = [ZeroCSPSourceOptions EXCEPT !.Allow = TRUE, !.AllowSelf = TRUE],
        !.CSP.StyleSrcAttr = [ZeroCSPSourceOptions EXCEPT !.Allow = TRUE, !.AllowSelf = TRUE,
                                                          !.UnsafeInline = TRUE],
        !.CSP.BaseURI = [ZeroCSPSourceOptions EXCEPT !.Allow = FALSE],
        !.CSP.FormAction = [ZeroCSPSourceOptions EXCEPT !.Allow = TRUE, !.AllowSelf = TRUE],
        !.CSP.ReportTo = [Value |-> "default"],
        !.ReportTo.ReportTo = ReactJSReportTo]

(***************************************************************************)
(* The two maps Load builds from the Policy's source-option fields.        *)
(***************************************************************************)
sourceOptFetchDirectives(p) ==
    "child-src" :> p.CSP.ChildSrc @@
    "connect-src" :> p.CSP.ConnectSrc @@
    "font-src" :> p.CSP.FontSrc @@
    "frame-src" :> p.CSP.FrameSrc @@
    "img-src" :> p.CSP.ImgSrc @@
    "manifest-src" :> p.CSP.ManifestSrc @@
    "media-src" :> p.CSP.MediaSrc @@
    "object-src" :> p.CSP.ObjectSrc @@
    "prefetch-src" :> p.CSP.PrefetchSrc @@
    "script-src" :> p.CSP.ScriptSrc @@
    "script-src-elem" :> p.CSP.ScriptSrcElem @@
    "script-src-attr" :> p.CSP.ScriptSrcAttr @@
    "style-src" :> p.CSP.StyleSrc @@
    "style-src-elem" :> p.CSP.StyleSrcElem @@
    "style-src-attr" :> p.CSP.StyleSrcAttr @@
    "worker-src" :> p.CSP.WorkerSrc

sourceOptNonFetchDirectives(p) ==
    "base-uri" :> p.CSP.BaseURI @@
    "form-action" :> p.CSP.FormAction

(***************************************************************************)
(* Steps of Load, as operators.                                            *)
(***************************************************************************)
\* lines 123-141: an empty template text is replaced by the package default
DefaultTemplates(p) ==
    [SourceOption |->
        IF Len(p.SourceOptionTemplateText) = 0 THEN TemplateTextSourceOption
        ELSE p.SourceOptionTemplateText,
     Sandbox |->
        IF Len(p.SandboxOptionTemplateText) = 0 THEN TemplateTextSandbox
        ELSE p.SandboxOptionTemplateText,
     FrameAncestorOptions |->
        IF Len(p.FrameAncestorOptionsTemplateText) = 0 THEN TemplateTextFrameAncestorOptions
        ELSE p.FrameAncestorOptionsTemplateText,
     UnquotedOptions |->
        IF Len(p.UnquotedOptionsTextTemplateText) = 0 THEN TemplateTextUnquotedOptions
        ELSE p.UnquotedOptionsTextTemplateText,
     UnquotedOption |->
        IF Len(p.UnquotedOptionTextTemplateText) = 0 THEN TemplateTextUnquotedOption
        ELSE p.UnquotedOptionTextTemplateText]

\* template.New(name).Parse(text): the error, nil when the text is a template
TemplateParseError(text) ==
    IF text = TemplateTextMalformed THEN ErrTemplateParse ELSE NilError

\* lines 145-168: the five texts are parsed in turn, the first error is returned
ParseTemplatesError(t) ==
    IF TemplateParseError(t.SourceOption) # NilError THEN TemplateParseError(t.SourceOption)
    ELSE IF TemplateParseError(t.Sandbox) # NilError THEN TemplateParseError(t.Sandbox)
    ELSE IF TemplateParseError(t.FrameAncestorOptions) # NilError
        THEN TemplateParseError(t.FrameAncestorOptions)
    ELSE IF TemplateParseError(t.UnquotedOptions) # NilError
        THEN TemplateParseError(t.UnquotedOptions)
    ELSE TemplateParseError(t.UnquotedOption)

\* PreFlightError without the check for an empty payload
PreFlightErrorNoMissingCheck(p) ==
    IF Len(p.CSP.ReportTo.Value) # 0 /\ ~Contains(p.ReportTo.ReportTo, p.CSP.ReportTo.Value)
    THEN ErrReportToMismatch
    ELSE NilError

\* lines 173-184: the compound check of report-to against the Report-To payload
PreFlightError(p) ==
    IF Len(p.CSP.ReportTo.Value) # 0
    THEN IF Len(p.ReportTo.ReportTo) = 0 THEN ErrReportToMissing
         ELSE IF ~Contains(p.ReportTo.ReportTo, p.CSP.ReportTo.Value) THEN ErrReportToMismatch
         ELSE NilError
    ELSE NilError

\* IsRedundant that only drops a repeated 'none'
IsRedundantNoneOnly(defaultSrcText, policyDirectiveText) ==
    policyDirectiveText = "'none'" /\ defaultSrcText = policyDirectiveText

\* line 232: the policy would be redundant
IsRedundant(defaultSrcText, policyDirectiveText) ==
    defaultSrcText = policyDirectiveText

\* IsDynamic that forgets the nonce
IsDynamicHashOnly(v) ==
    Len(v.HashAlgorithmBase64Value) > 0

\* lines 239 and 250: the options are unique per page load or script tag
IsDynamic(v) ==
    Len(v.NonceBase64Value) > 0 \/ Len(v.HashAlgorithmBase64Value) > 0

\* fmt.Sprintf("%s %s;", k, v)
Fragment(k, v) == k \o " " \o v \o ";"

\* The orders in which a range statement can visit the keys S of a map: every one.
RECURSIVE Orderings(_)
Orderings(S) ==
    IF S = {} THEN {<<>>}
    ELSE UNION {{<<k>> \o rest : rest \in Orderings(S \ {k})} : k \in S}

\* The keys a flattening loop appends a fragment for; on the others it continues,
\* so where they come in the iteration changes nothing.
ActiveKeys(m) == {k \in DOMAIN m : Len(m[k]) # 0}

\* FlattenMap that stops one entry short
FlattenMapDropLast(m, order) ==
    [i \in 1..(Len(order) - 1) |-> Fragment(order[i], m[order[i]])]

\* lines 296-301 and 302-307: the fragments appended while ranging over m in the given order
FlattenMap(m, order) ==
    [i \in 1..Len(order) |-> Fragment(order[i], m[order[i]])]

\* cspTable with Report-To set only when the policy names a report-to group
HeaderTableGroupOnly(p, resultantCSP) ==
    IF Len(p.CSP.ReportTo.Value) > 0
    THEN "Content-Security-Policy" :> resultantCSP @@ "Report-To" :> p.ReportTo.ReportTo
    ELSE "Content-Security-Policy" :> resultantCSP

\* lines 310-314: cspTable
HeaderTable(p, resultantCSP) ==
    IF Len(p.ReportTo.ReportTo) > 0
    THEN "Content-Security-Policy" :> resultantCSP @@ "Report-To" :> p.ReportTo.ReportTo
    ELSE "Content-Security-Policy" :> resultantCSP

\* what Load hands back: (nil, err) or (cspTable, nil)
NotReturned == [returned |-> FALSE, nilMap |-> TRUE, headers |-> <<>>, err |-> NilError]
ReturnError(e) == [returned |-> TRUE, nilMap |-> TRUE, headers |-> <<>>, err |-> e]
ReturnTable(t) == [returned |-> TRUE, nilMap |-> FALSE, headers |-> t, err |-> NilError]

(***************************************************************************)
(* Policies Load is called on.                                             *)
(***************************************************************************)
Range(f) == {f[i] : i \in DOMAIN f}

FetchFields ==
    {"ChildSrc", "ConnectSrc", "FontSrc", "FrameSrc", "ImgSrc", "ManifestSrc", "MediaSrc",
     "ObjectSrc", "PrefetchSrc", "ScriptSrc", "ScriptSrcElem", "ScriptSrcAttr", "StyleSrc",
     "StyleSrcElem", "StyleSrcAttr", "WorkerSrc"}

TemplateFields ==
    {"SourceOptionTemplateText", "SandboxOptionTemplateText",
     "FrameAncestorOptionsTemplateText", "UnquotedOptionsTextTemplateText",
     "UnquotedOptionTextTemplateText"}

\* source-option configurations: 'none', nothing at all, with and without nonce or hash
SrcChoices ==
    {ZeroCSPSourceOptions,
     [ZeroCSPSourceOptions EXCEPT !.Allow = TRUE],
     [ZeroCSPSourceOptions EXCEPT !.Allow = TRUE, !.AllowSelf = TRUE],
     [ZeroCSPSourceOptions EXCEPT !.Allow = TRUE, !.AllowSelf = TRUE,
                                  !.NonceBase64Value = "'nonce-abc123'"],
     [ZeroCSPSourceOptions EXCEPT !.Allow = TRUE, !.Values = <<"cdn.example.com">>,
                                  !.HashAlgorithmBase64Value = "'sha256-B2yPHKaXn'"],
     [ZeroCSPSourceOptions EXCEPT !.NonceBase64Value = "'nonce-abc123'"],
     [ZeroCSPSourceOptions EXCEPT !.Allow = TRUE, !.AllowSelf = TRUE, !.UnsafeInline = TRUE,
                                  !.StrictDynamic = TRUE]}

SandboxChoices ==
    {ZeroSandboxOptions,
     [ZeroSandboxOptions EXCEPT !.AllowForms = TRUE, !.AllowScripts = TRUE],
     [ZeroSandboxOptions EXCEPT !.AllowDownloads = TRUE, !.AllowForms = TRUE]}

FrameAncestorChoices ==
    {ZeroFrameAncestorOptions,
     [ZeroFrameAncestorOptions EXCEPT !.Allow = TRUE],
     [ZeroFrameAncestorOptions EXCEPT !.Allow = TRUE, !.AllowSelf = TRUE,
                                      !.HostSources = <<"cdn.example.com">>],
     [ZeroFrameAncestorOptions EXCEPT !.Allow = TRUE, !.HostSources = <<"*.example.org">>,
                                      !.SchemeSources = <<"https:">>]}

ReportURIChoices ==
    {ZeroUnquotedOptions, [Values |-> <<"/csp">>], [Values |-> <<"/csp", "https://r.example/csp">>]}

\* a Report-To payload for another group
OtherReportTo ==
    "{\"group\":\"other\",\"max_age\": 86400, \"endpoints\": [{\"url\":\"/_/csp-reports\" }]}"

\* p with every fetch directive configured as v
WithAllFetch(p, v) ==
    [p EXCEPT !.CSP = [f \in DOMAIN p.CSP |-> IF f \in FetchFields THEN v ELSE p.CSP[f]]]

\* default-src and one fetch directive vary.  The other fetch directives allow
\* nothing in particular (they render to the empty text), or, under a default-src
\* that renders 'none', are left at their zero value like default-src.
FetchPolicies ==
    {[WithAllFetch([ZeroPolicy EXCEPT !.CSP.DefaultSrc = dv],
                   [ZeroCSPSourceOptions EXCEPT !.Allow = TRUE]) EXCEPT !.CSP[f] = v] :
        dv \in SrcChoices, f \in FetchFields, v \in SrcChoices}
    \cup
    {[WithAllFetch([ZeroPolicy EXCEPT !.CSP.DefaultSrc = dv], dv) EXCEPT !.CSP[f] = v] :
        dv \in {c \in SrcChoices : ~c.Allow}, f \in FetchFields, v \in SrcChoices}

\* base-uri and form-action vary
NonFetchPolicies ==
    {[ZeroPolicy EXCEPT !.CSP.BaseURI = b, !.CSP.FormAction = fa] :
        b \in SrcChoices, fa \in SrcChoices}

\* sandbox, frame-ancestors, report-uri and upgrade-insecure-requests vary, without
\* and with a report-to group
OtherPolicies ==
    {[ZeroPolicy EXCEPT !.CSP.BaseURI = [ZeroCSPSourceOptions EXCEPT !.Allow = TRUE],
                        !.CSP.FormAction = [ZeroCSPSourceOptions EXCEPT !.Allow = TRUE],
                        !.CSP.Sandbox = sb, !.CSP.FrameAncestors = fr,
                        !.CSP.ReportURI = ru, !.CSP.UpgradeInsecureRequests = up,
                        !.CSP.ReportTo = [Value |-> g],
                        !.ReportTo.ReportTo = IF g = "" THEN "" ELSE ReactJSReportTo] :
        sb \in SandboxChoices, fr \in FrameAncestorChoices, ru \in ReportURIChoices,
        up \in BOOLEAN, g \in {"", "default"}}

\* the report-to group, the Report-To payload and one template text vary
ReportPolicies ==
    LET base == {[ZeroPolicy EXCEPT !.CSP.ReportTo = [Value |-> g], !.ReportTo.ReportTo = rt] :
                    g \in {"", "default"}, rt \in {"", ReactJSReportTo, OtherReportTo}}
    IN  base \cup
        {[p EXCEPT ![f] = t] :
            p \in base, f \in TemplateFields,
            t \in {TemplateTextMalformed, TemplateTextNoSuchField}}

Policies ==
    FetchPolicies \cup NonFetchPolicies \cup OtherPolicies \cup ReportPolicies
        \cup {SecurityOptionsReactJS}

(***************************************************************************)
(* Load, step by step, and a second call on the same Policy value.         *)
(***************************************************************************)
NoTemplates ==
    [SourceOption |-> "", Sandbox |-> "", FrameAncestorOptions |-> "",
     UnquotedOptions |-> "", UnquotedOption |-> ""]

NoPrev ==
    [called |-> FALSE, nilMap |-> TRUE, err |-> NilError, keys |-> {}, reportTo |-> "",
     fragments |-> {}]

IdleOpt == [kind |-> "none", value |-> ZeroUnquotedOption, tmpl |-> ""]
IdleOut == [done |-> FALSE, text |-> "", err |-> NilError]

Init ==
    /\ pol \in Policies
    /\ pc = "templates"
    /\ run = 1
    /\ prev = NoPrev
    /\ templateText = NoTemplates
    /\ cspStaticDirectives = <<>>
    /\ cspDynamicDirectives = <<>>
    /\ activeCSPs = <<>>
    /\ ret = NotReturned
    /\ opt = IdleOpt
    /\ out = IdleOut

\* lines 123-168
ResolveTemplates ==
    /\ pc = "templates"
    /\ LET t == DefaultTemplates(pol)
           e == ParseTemplatesError(t)
       IN  /\ templateText' = t
           /\ IF e # NilError
              THEN ret' = ReturnError(e) /\ pc' = "returned"
              ELSE ret' = ret /\ pc' = "preflight"
    /\ UNCHANGED <<pol, run, prev, cspStaticDirectives, cspDynamicDirectives, activeCSPs,
                   opt, out>>

\* PreFlight with the check moved behind the creation of the maps and the
\* rendering of default-src
PreFlightAfterDefaultSrc ==
    /\ pc = "preflight"
    /\ LET e == PreFlightError(pol)
           r == CSPSourceOptionsParse(pol.CSP.DefaultSrc, templateText.SourceOption)
       IN  /\ cspDynamicDirectives' = <<>>
           /\ cspStaticDirectives' = ("default-src" :> r.text)
           /\ IF e # NilError
              THEN ret' = ReturnError(e) /\ pc' = "returned"
              ELSE ret' = ret /\ pc' = "defaultSrc"
    /\ UNCHANGED <<pol, run, prev, templateText, activeCSPs, opt, out>>

\* lines 173-187
PreFlight ==
    /\ pc = "preflight"
    /\ LET e == PreFlightError(pol)
       IN  IF e # NilError
           THEN /\ ret' = ReturnError(e)
                /\ pc' = "returned"
                /\ UNCHANGED <<cspStaticDirectives, cspDynamicDirectives>>
           ELSE /\ cspDynamicDirectives' = <<>>
                /\ cspStaticDirectives' = <<>>
                /\ pc' = "defaultSrc"
                /\ ret' = ret
    /\ UNCHANGED <<pol, run, prev, templateText, activeCSPs, opt, out>>

\* lines 218-221
ParseDefaultSrc ==
    /\ pc = "defaultSrc"
    /\ LET r == CSPSourceOptionsParse(pol.CSP.DefaultSrc, templateText.SourceOption)
       IN  /\ cspStaticDirectives' = ("default-src" :> r.text) @@ cspStaticDirectives
           /\ IF r.err # NilError
              THEN ret' = ReturnError(r.err) /\ pc' = "returned"
              ELSE ret' = ret /\ pc' = "fetch"
    /\ UNCHANGED <<pol, run, prev, templateText, cspDynamicDirectives, activeCSPs, opt, out>>

\* lines 225-244.  An iteration reads default-src's text and writes only its own
\* key, so the order of the iterations does not show in the maps; a rendering
\* error returns from the first iteration, before anything is stored.
FetchDirectives ==
    /\ pc = "fetch"
    /\ LET m == sourceOptFetchDirectives(pol)
           r == [k \in DOMAIN m |-> CSPSourceOptionsParse(m[k], templateText.SourceOption)]
           kept == {k \in DOMAIN m :
                       ~IsRedundant(cspStaticDirectives["default-src"], r[k].text)}
           dyn == {k \in kept : IsDynamic(m[k])}
       IN  IF \E k \in DOMAIN m : r[k].err # NilError
           THEN /\ ret' = ReturnError(ErrTemplateExecute)
                /\ pc' = "returned"
                /\ UNCHANGED <<cspStaticDirectives, cspDynamicDirectives>>
           ELSE /\ cspDynamicDirectives' = [k \in dyn |-> r[k].text] @@ cspDynamicDirectives
                /\ cspStaticDirectives' =
                       [k \in kept \ dyn |-> r[k].text] @@ cspStaticDirectives
                /\ ret' = ret
                /\ pc' = "nonFetch"
    /\ UNCHANGED <<pol, run, prev, templateText, activeCSPs, opt, out>>

\* lines 246-261.  A rendering error returns from the first iteration, whose key
\* has then been given the empty text.
NonFetchDirectives ==
    /\ pc = "nonFetch"
    /\ LET m == sourceOptNonFetchDirectives(pol)
           r == [k \in DOMAIN m |-> CSPSourceOptionsParse(m[k], templateText.SourceOption)]
           dyn == {k \in DOMAIN m : IsDynamic(m[k])}
       IN  IF \E k \in DOMAIN m : r[k].err # NilError
           THEN \E k \in DOMAIN m :
                /\ cspDynamicDirectives' =
                       IF k \in dyn THEN (k :> "") @@ cspDynamicDirectives
                       ELSE cspDynamicDirectives
                /\ cspStaticDirectives' =
                       IF k \in dyn THEN cspStaticDirectives
                       ELSE (k :> "") @@ cspStaticDirectives
                /\ ret' = ReturnError(r[k].err)
                /\ pc' = "returned"
           ELSE /\ cspDynamicDirectives' = [k \in dyn |-> r[k].text] @@ cspDynamicDirectives
                /\ cspStaticDirectives' =
                       [k \in DOMAIN m \ dyn |-> r[k].text] @@ cspStaticDirectives
                /\ ret' = ret
                /\ pc' = "others"
    /\ UNCHANGED <<pol, run, prev, templateText, activeCSPs, opt, out>>

\* lines 264-291
OtherDirectives ==
    /\ pc = "others"
    /\ LET sb == SandboxOptionsParse(pol.CSP.Sandbox, templateText.Sandbox)
           fr == FrameAncestorOptionsParse(pol.CSP.FrameAncestors,
                                           templateText.FrameAncestorOptions)
           ru == UnquotedOptionsParse(pol.CSP.ReportURI, templateText.UnquotedOptions)
           rt == UnquotedOptionParse(pol.CSP.ReportTo, templateText.UnquotedOption)
           s1 == ("sandbox" :> sb.text) @@ cspStaticDirectives
           s2 == ("frame-ancestors" :> fr.text) @@ s1
           s3 == ("report-uri" :> ru.text) @@ s2
           s4 == ("report-to" :> rt.text) @@ s3
           s5 == ("upgrade-insecure-requests" :>
                     IF pol.CSP.UpgradeInsecureRequests THEN "upgrade-insecure-requests"
                     ELSE "") @@ s4
       IN  IF sb.err # NilError
           THEN cspStaticDirectives' = s1 /\ ret' = ReturnError(sb.err) /\ pc' = "returned"
           ELSE IF fr.err # NilError
           THEN cspStaticDirectives' = s2 /\ ret' = ReturnError(fr.err) /\ pc' = "returned"
           ELSE IF ru.err # NilError
           THEN cspStaticDirectives' = s3 /\ ret' = ReturnError(ru.err) /\ pc' = "returned"
           ELSE IF rt.err # NilError
           THEN cspStaticDirectives' = s4 /\ ret' = ReturnError(rt.err) /\ pc' = "returned"
           ELSE cspStaticDirectives' = s5 /\ ret' = ret /\ pc' = "flatten"
    /\ UNCHANGED <<pol, run, prev, templateText, cspDynamicDirectives, activeCSPs, opt, out>>

\* lines 294-307: the static map is ranged over, then the dynamic map, each in
\* an order the runtime chooses
Flatten ==
    /\ pc = "flatten"
    /\ \E so \in Orderings(ActiveKeys(cspStaticDirectives)),
          do \in Orderings(ActiveKeys(cspDynamicDirectives)) :
            activeCSPs' = FlattenMap(cspStaticDirectives, so)
                              \o FlattenMap(cspDynamicDirectives, do)
    /\ pc' = "emit"
    /\ UNCHANGED <<pol, run, prev, templateText, cspStaticDirectives, cspDynamicDirectives,
                   ret, opt, out>>

\* lines 308-316
Emit ==
    /\ pc = "emit"
    /\ LET resultantCSP == Join(activeCSPs, " ")
       IN  ret' = ReturnTable(HeaderTable(pol, resultantCSP))
    /\ pc' = "returned"
    /\ UNCHANGED <<pol, run, prev, templateText, cspStaticDirectives, cspDynamicDirectives,
                   activeCSPs, opt, out>>

\* The caller keeps what the first call returned (the outcome, the keys, the
\* Report-To value, and the fragments of the Content-Security-Policy value) and
\* calls Load on the same Policy value again; the new call starts from its own
\* copy of the value.
LoadAgain ==
    /\ pc = "returned"
    /\ run = 1
    /\ run' = 2
    /\ prev' = [called |-> TRUE, nilMap |-> ret.nilMap, err |-> ret.err,
                keys |-> DOMAIN ret.headers,
                reportTo |-> IF "Report-To" \in DOMAIN ret.headers
                             THEN ret.headers["Report-To"] ELSE "",
                fragments |-> Range(activeCSPs)]
    /\ pc' = "templates"
    /\ templateText' = NoTemplates
    /\ cspStaticDirectives' = <<>>
    /\ cspDynamicDirectives' = <<>>
    /\ activeCSPs' = <<>>
    /\ ret' = NotReturned
    /\ UNCHANGED <<pol, opt, out>>

Next ==
    \/ ResolveTemplates
    \/ PreFlight
    \/ ParseDefaultSrc
    \/ FetchDirectives
    \/ NonFetchDirectives
    \/ OtherDirectives
    \/ Flatten
    \/ Emit
    \/ LoadAgain

Spec == Init /\ [][Next]_vars

(***************************************************************************)
(* The rendering machine: one Parse call on one option value.              *)
(***************************************************************************)
RenderInputs ==
    {[kind |-> "CSPSourceOptions", value |-> v, tmpl |-> t] :
        v \in AllCSPSourceOptions, t \in {TemplateTextSourceOption, TemplateTextNoSuchField}}
    \cup
    {[kind |-> "SandboxOptions", value |-> v, tmpl |-> t] :
        v \in AllSandboxOptions, t \in {TemplateTextSandbox, TemplateTextNoSuchField}}
    \cup
    {[kind |-> "FrameAncestorOptions", value |-> v, tmpl |-> t] :
        v \in AllFrameAncestorOptions,
        t \in {TemplateTextFrameAncestorOptions, TemplateTextNoSuchField}}
    \cup
    {[kind |-> "UnquotedOptions", value |-> v, tmpl |-> t] :
        v \in AllUnquotedOptions, t \in {TemplateTextUnquotedOptions, TemplateTextNoSuchField}}
    \cup
    {[kind |-> "UnquotedOption", value |-> v, tmpl |-> t] :
        v \in AllUnquotedOption, t \in {TemplateTextUnquotedOption, TemplateTextNoSuchField}}

InitRender ==
    /\ opt \in RenderInputs
    /\ out = IdleOut
    /\ pol = ZeroPolicy
    /\ pc = "idle"
    /\ run = 1
    /\ prev = NoPrev
    /\ templateText = NoTemplates
    /\ cspStaticDirectives = <<>>
    /\ cspDynamicDirectives = <<>>
    /\ activeCSPs = <<>>
    /\ ret = NotReturned

Returned(r) == [done |-> TRUE, text |-> r.text, err |-> r.err]

ParseCSPSourceOptions ==
    /\ opt.kind = "CSPSourceOptions"
    /\ ~out.done
    /\ out' = Returned(CSPSourceOptionsParse(opt.value, opt.tmpl))
    /\ UNCHANGED <<opt, loadVars>>

ParseSandboxOptions ==
    /\ opt.kind = "SandboxOptions"
    /\ ~out.done
    /\ out' = Returned(SandboxOptionsParse(opt.value, opt.tmpl))
    /\ UNCHANGED <<opt, loadVars>>

ParseFrameAncestorOptions ==
    /\ opt.kind = "FrameAncestorOptions"
    /\ ~out.done
    /\ out' = Returned(FrameAncestorOptionsParse(opt.value, opt.tmpl))
    /\ UNCHANGED <<opt, loadVars>>

ParseUnquotedOptions ==
    /\ opt.kind = "UnquotedOptions"
    /\ ~out.done
    /\ out' = Returned(UnquotedOptionsParse(opt.value, opt.tmpl))
    /\ UNCHANGED <<opt, loadVars>>

ParseUnquotedOption ==
    /\ opt.kind = "UnquotedOption"
    /\ ~out.done
    /\ out' = Returned(UnquotedOptionParse(opt.value, opt.tmpl))
    /\ UNCHANGED <<opt, loadVars>>

NextRender ==
    \/ ParseCSPSourceOptions
    \/ ParseSandboxOptions
    \/ ParseFrameAncestorOptions
    \/ ParseUnquotedOptions
    \/ ParseUnquotedOption

SpecRender == InitRender /\ [][NextRender]_vars

(***************************************************************************)
(* Vocabulary of the properties.                                           *)
(***************************************************************************)
FetchNames == DOMAIN sourceOptFetchDirectives(ZeroPolicy)

\* Load returned a header map
Succeeded == pc = "returned" /\ ~ret.nilMap

\* the Policy leaves all five template texts empty, so Load uses the defaults
UsesDefaultTemplates == \A f \in TemplateFields : pol[f] = ""

\* the Content-Security-Policy value is the fragments joined by single spaces
JoinedValue ==
    ret.headers["Content-Security-Policy"] = Join(activeCSPs, " ")

\* s begins with prefix
HasPrefix(s, prefix) ==
    /\ Len(prefix) <= Len(s)
    /\ SubSeq(s, 1, Len(prefix)) = prefix

\* the Content-Security-Policy value has a fragment "<d> <value>;"
HasFragment(d) == \E i \in DOMAIN activeCSPs : HasPrefix(activeCSPs[i], d \o " ")

\* allow=true and nothing else: no self, no value, no flag, no nonce, no hash
AllowsNothingInParticular(cso) == cso = [ZeroCSPSourceOptions EXCEPT !.Allow = TRUE]

(***************************************************************************)
(* C1.  Redundancy elimination.                                            *)
(***************************************************************************)
\* C1 as stated: whenever Load succeeds under the default templates, every fetch
\* directive configured identically to default-src has no fragment in the
\* Content-Security-Policy value while default-src has one, and default-src has
\* a fragment for every configuration of default-src.
C1_AsStated ==
    (Succeeded /\ UsesDefaultTemplates) =>
        /\ JoinedValue
        /\ \A d \in FetchNames :
              sourceOptFetchDirectives(pol)[d] = pol.CSP.DefaultSrc =>
                  HasFragment("default-src") /\ ~HasFragment(d)
        /\ HasFragment("default-src")

\* C1 amended: whenever Load succeeds under the default templates, every fetch
\* directive configured identically to default-src has no fragment in the
\* Content-Security-Policy value; default-src has a fragment exactly when its
\* rendered text is non-empty, that is for every configuration except allow=true
\* with nothing else set.
C1_RedundantFetchDropped ==
    (Succeeded /\ UsesDefaultTemplates) =>
        /\ JoinedValue
        /\ \A d \in FetchNames :
              sourceOptFetchDirectives(pol)[d] = pol.CSP.DefaultSrc => ~HasFragment(d)
        /\ HasFragment("default-src") <=> ~AllowsNothingInParticular(pol.CSP.DefaultSrc)

\* script-src repeats default-src and is dropped, while default-src and a
\* differently configured fetch directive are emitted
C1_Witness ==
    /\ Succeeded /\ UsesDefaultTemplates
    /\ pol.CSP.ScriptSrc = pol.CSP.DefaultSrc
    /\ HasFragment("default-src")
    /\ ~HasFragment("script-src")
    /\ HasFragment("img-src")

(***************************************************************************)
(* C2.  Partitioning into the static and the dynamic mapping.              *)
(***************************************************************************)
\* the partitioning steps (default-src, the fetch loop, the non-fetch loop) are done
AfterPartition == pc \in {"others", "flatten", "emit"} \/ Succeeded

SourceOptDirectives(p) ==
    ("default-src" :> p.CSP.DefaultSrc) @@ sourceOptFetchDirectives(p)
        @@ sourceOptNonFetchDirectives(p)

DynamicOnly(k) == k \in DOMAIN cspDynamicDirectives /\ k \notin DOMAIN cspStaticDirectives
StaticOnly(k) == k \in DOMAIN cspStaticDirectives /\ k \notin DOMAIN cspDynamicDirectives

\* the two cases of the claim, for the directive k configured as v
PartitionedByNonce(k, v) ==
    /\ Len(v.NonceBase64Value) # 0 => DynamicOnly(k)
    /\ (Len(v.NonceBase64Value) = 0 /\ Len(v.HashAlgorithmBase64Value) = 0) => StaticOnly(k)

\* C2 as stated: after the partitioning steps, every source-option directive
\* (default-src, the 16 fetch directives, base-uri, form-action) with a non-empty
\* nonce is a key of the dynamic mapping only, and every one with neither nonce
\* nor hash is a key of the static mapping only.
C2_AsStated ==
    AfterPartition =>
        \A k \in DOMAIN SourceOptDirectives(pol) :
            PartitionedByNonce(k, SourceOptDirectives(pol)[k])

\* C2 amended: after the partitioning steps, the two cases hold for base-uri,
\* form-action and every fetch directive whose rendered text differs from
\* default-src's; default-src is a key of the static mapping only, whatever its
\* nonce; a fetch directive whose rendered text equals default-src's is a key of
\* neither mapping.
C2_Partitioned ==
    AfterPartition =>
        /\ StaticOnly("default-src")
        /\ \A k \in FetchNames :
              LET v == sourceOptFetchDirectives(pol)[k]
              IN  IF ExecuteSourceOption(v) = ExecuteSourceOption(pol.CSP.DefaultSrc)
                  THEN k \notin DOMAIN cspStaticDirectives
                       /\ k \notin DOMAIN cspDynamicDirectives
                  ELSE PartitionedByNonce(k, v)
        /\ \A k \in DOMAIN sourceOptNonFetchDirectives(pol) :
              PartitionedByNonce(k, sourceOptNonFetchDirectives(pol)[k])

\* script-src carries a nonce and is dynamic, form-action carries one too,
\* base-uri carries none and is static, default-src is static
C2_Witness ==
    /\ AfterPartition
    /\ Len(pol.CSP.FormAction.NonceBase64Value) # 0
    /\ DynamicOnly("form-action")
    /\ Len(pol.CSP.BaseURI.NonceBase64Value) = 0
    /\ Len(pol.CSP.BaseURI.HashAlgorithmBase64Value) = 0
    /\ StaticOnly("base-uri")
    /\ StaticOnly("default-src")

\* a fetch directive with a nonce, rendered unlike default-src, is dynamic
C2_WitnessFetch ==
    /\ AfterPartition
    /\ Len(pol.CSP.ScriptSrc.NonceBase64Value) # 0
    /\ DynamicOnly("script-src")

(***************************************************************************)
(* C3.  Sandbox rendering.                                                 *)
(***************************************************************************)
\* the 13 sandbox flags and their tokens, in the canonical order
SandboxFlags ==
    << <<"AllowDownloads", "allow-downloads">>,
       <<"AllowForms", "allow-forms">>,
       <<"AllowModals", "allow-modals">>,
       <<"AllowOrientationLock", "allow-orientation-lock">>,
       <<"AllowPointerLock", "allow-pointer-lock">>,
       <<"AllowPopups", "allow-popups">>,
       <<"AllowPopupsToEscapeSandbox", "allow-popups-to-escape-sandbox">>,
       <<"AllowPresentation", "allow-presentation">>,
       <<"AllowSameOrigin", "allow-same-origin">>,
       <<"AllowScripts", "allow-scripts">>,
       <<"AllowTopNavigation", "allow-top-navigation">>,
       <<"AllowTopNavigationByUserActivation", "allow-top-navigation-by-user-activation">>,
       <<"AllowTopNavigationToCustomProtocols", "allow-top-navigation-to-custom-protocols">> >>

\* the tokens whose flag is true, in the canonical order
RECURSIVE TokensFrom(_, _)
TokensFrom(so, i) ==
    IF i > Len(SandboxFlags) THEN <<>>
    ELSE (IF so[SandboxFlags[i][1]] THEN <<SandboxFlags[i][2]>> ELSE <<>>)
             \o TokensFrom(so, i + 1)

SandboxRendered ==
    opt.kind = "SandboxOptions" /\ out.done /\ opt.tmpl = TemplateTextSandbox

\* C3: under the default sandbox template every combination of the 13 flags
\* renders to exactly the tokens whose flag is true, in the canonical order,
\* separated by single spaces, with no leading and no trailing space (the empty
\* string when no flag is true).
C3_AsStated ==
    SandboxRendered =>
        /\ out.err = NilError
        /\ out.text = Join(TokensFrom(opt.value, 1), " ")

(***************************************************************************)
(* C5 and C10.  Source-option rendering.                                   *)
(***************************************************************************)
SourceOptionRendered ==
    opt.kind = "CSPSourceOptions" /\ out.done /\ opt.tmpl = TemplateTextSourceOption

\* C5: under the default source-option template a value with allow=false
\* renders to exactly 'none', whatever its other fields hold.
C5_DisallowRendersNone ==
    (SourceOptionRendered /\ ~opt.value.Allow) =>
        /\ out.err = NilError
        /\ out.text = "'none'"

\* allow=false next to 'self', a value, a flag, a nonce and a hash
C5_Witness ==
    /\ SourceOptionRendered
    /\ ~opt.value.Allow
    /\ opt.value.AllowSelf
    /\ Len(opt.value.Values) = MaxValues
    /\ opt.value.UnsafeInline
    /\ opt.value.StrictDynamic
    /\ Len(opt.value.NonceBase64Value) # 0
    /\ Len(opt.value.HashAlgorithmBase64Value) # 0
    /\ out.text = "'none'"

\* the enabled tokens of a source-option value, in the order of the claim
SourceTokens(cso) ==
    (IF cso.AllowSelf THEN <<"'self'">> ELSE <<>>) \o
    cso.Values \o
    (IF cso.UnsafeEval THEN <<"'unsafe-eval'">> ELSE <<>>) \o
    (IF cso.WasmUnsafeEval THEN <<"'wasm-unsafe-eval'">> ELSE <<>>) \o
    (IF cso.UnsafeHashes THEN <<"'unsafe-hashes'">> ELSE <<>>) \o
    (IF cso.UnsafeInline THEN <<"'unsafe-inline'">> ELSE <<>>) \o
    (IF Len(cso.NonceBase64Value) # 0 THEN <<cso.NonceBase64Value>> ELSE <<>>) \o
    (IF Len(cso.HashAlgorithmBase64Value) # 0 THEN <<cso.HashAlgorithmBase64Value>>
     ELSE <<>>) \o
    (IF cso.StrictDynamic THEN <<"'strict-dynamic'">> ELSE <<>>) \o
    (IF cso.ReportSample THEN <<"'report-sample'">> ELSE <<>>)

\* C10: under the default source-option template a value with allow=true renders
\* to its enabled tokens in the fixed order ('self', the values, the four unsafe
\* flags, the nonce, the hash, 'strict-dynamic', 'report-sample'), adjacent
\* tokens separated by exactly one space and no leading space.
C10_AsStated ==
    (SourceOptionRendered /\ opt.value.Allow) =>
        /\ out.err = NilError
        /\ out.text = Join(SourceTokens(opt.value), " ")

(***************************************************************************)
(* C4.  Validation of report-to against the Report-To payload.             *)
(***************************************************************************)
GroupName == pol.CSP.ReportTo.Value
Payload == pol.ReportTo.ReportTo

TemplatesCompile == \A f \in TemplateFields : pol[f] # TemplateTextMalformed

FailsValidation == ret.err \in {ErrReportToMissing, ErrReportToMismatch}

HoldsBothKeys ==
    {"Content-Security-Policy", "Report-To"} \subseteq DOMAIN ret.headers

\* C4 as stated: for a Policy whose templates compile: no group name, Load does
\* not fail validation; a group name and an empty payload, Load fails with the
\* ReportToMissing error; a group name and a non-empty payload that does not
\* contain it, Load fails with the ReportToMismatch error; a payload that
\* contains the group name, validation passes and the output map holds both the
\* Content-Security-Policy and the Report-To keys.
C4_AsStated ==
    (pc = "returned" /\ TemplatesCompile) =>
        /\ Len(GroupName) = 0 => ~FailsValidation
        /\ (Len(GroupName) # 0 /\ Len(Payload) = 0) =>
              ret.nilMap /\ ret.err = ErrReportToMissing
        /\ (Len(GroupName) # 0 /\ Len(Payload) # 0 /\ ~Contains(Payload, GroupName)) =>
              ret.nilMap /\ ret.err = ErrReportToMismatch
        /\ Contains(Payload, GroupName) =>
              /\ ~FailsValidation
              /\ ~ret.nilMap
              /\ HoldsBothKeys

\* C4 amended: the first three cases as stated; a non-empty payload that
\* contains the group name, validation passes, and Load returns a map holding
\* both keys unless a directive fails to render under a caller-supplied template,
\* in which case it returns that rendering error and no map (under the default
\* templates it always returns the map).
C4_ReportToValidation ==
    (pc = "returned" /\ TemplatesCompile) =>
        /\ Len(GroupName) = 0 => ~FailsValidation
        /\ (Len(GroupName) # 0 /\ Len(Payload) = 0) =>
              ret.nilMap /\ ret.err = ErrReportToMissing
        /\ (Len(GroupName) # 0 /\ Len(Payload) # 0 /\ ~Contains(Payload, GroupName)) =>
              ret.nilMap /\ ret.err = ErrReportToMismatch
        /\ (Len(Payload) # 0 /\ Contains(Payload, GroupName)) =>
              /\ ~FailsValidation
              /\ ~ret.nilMap => HoldsBothKeys
              /\ ret.nilMap =>
                    /\ ret.err = ErrTemplateExecute
                    /\ \E f \in TemplateFields : pol[f] = TemplateTextNoSuchField
              /\ UsesDefaultTemplates => ~ret.nilMap

\* group "default" in a payload naming it inside a longer text: both keys returned
C4_Witness ==
    /\ Succeeded
    /\ GroupName = "default"
    /\ Payload = ReactJSReportTo
    /\ HoldsBothKeys
    /\ ret.headers["Report-To"] = ReactJSReportTo

\* group "default" against a payload for group "other": the mismatch error
C4_WitnessMismatch ==
    /\ pc = "returned"
    /\ GroupName = "default"
    /\ Payload = OtherReportTo
    /\ ret.nilMap
    /\ ret.err = ErrReportToMismatch

\* group "default" without a payload: the missing error
C4_WitnessMissing ==
    /\ pc = "returned"
    /\ GroupName = "default"
    /\ Payload = ""
    /\ ret.nilMap
    /\ ret.err = ErrReportToMissing

(***************************************************************************)
(* C6.  The README's output for the preset.                                *)
(***************************************************************************)
ReadmeFragments ==
    {"script-src 'self' 'strict-dynamic';",
     "base-uri 'none';",
     "form-action 'self';",
     "frame-ancestors 'none';",
     "report-to default;",
     "default-src 'none';",
     "style-src-attr 'self' 'unsafe-inline';"}

\* C6: Load on SecurityOptionsReactJS() succeeds, its Content-Security-Policy
\* value consists of exactly the seven fragments the README shows, in any order,
\* and its Report-To value is the preset's payload.
C6_AsStated ==
    (pc = "returned" /\ pol = SecurityOptionsReactJS) =>
        /\ ~ret.nilMap
        /\ ret.err = NilError
        /\ JoinedValue
        /\ Len(activeCSPs) = Cardinality(ReadmeFragments)
        /\ Range(activeCSPs) = ReadmeFragments
        /\ "Report-To" \in DOMAIN ret.headers
        /\ ret.headers["Report-To"] = ReactJSReportTo

(***************************************************************************)
(* C7.  Spacing of the Content-Security-Policy value.                      *)
(***************************************************************************)
Clean(str) == Len(str) # 0 /\ ~Contains(str, " ")

AllClean(strs) == \A i \in DOMAIN strs : Clean(strs[i])

\* every source, host, scheme, report-uri and group-name string of the Policy is
\* non-empty and free of spaces
CleanStrings(p) ==
    /\ \A k \in DOMAIN SourceOptDirectives(p) : AllClean(SourceOptDirectives(p)[k].Values)
    /\ AllClean(p.CSP.FrameAncestors.HostSources)
    /\ AllClean(p.CSP.FrameAncestors.SchemeSources)
    /\ AllClean(p.CSP.ReportURI.Values)
    /\ Clean(p.CSP.ReportTo.Value)

\* C7: whenever Load succeeds under the default templates on a Policy whose
\* strings are non-empty and free of spaces, the Content-Security-Policy value is
\* its fragments joined by single spaces, with never two consecutive spaces and
\* never a space immediately before a ';'.
C7_AsStated ==
    (Succeeded /\ UsesDefaultTemplates /\ CleanStrings(pol)) =>
        /\ JoinedValue
        /\ ~Contains(ret.headers["Content-Security-Policy"], "  ")
        /\ ~Contains(ret.headers["Content-Security-Policy"], " ;")

(***************************************************************************)
(* C8.  The keys of the returned map.                                      *)
(***************************************************************************)
\* C8: whenever Load succeeds the map has the key Content-Security-Policy, has
\* the key Report-To exactly when the payload is non-empty, with the payload as
\* its value, and has no other key; with or without a report-to group name.
C8_HeaderKeys ==
    Succeeded =>
        /\ "Content-Security-Policy" \in DOMAIN ret.headers
        /\ "Report-To" \in DOMAIN ret.headers <=> Len(Payload) # 0
        /\ Len(Payload) # 0 => ret.headers["Report-To"] = Payload
        /\ DOMAIN ret.headers \subseteq {"Content-Security-Policy", "Report-To"}

\* a payload without a report-to group name is still passed through
C8_Witness ==
    /\ Succeeded
    /\ Len(GroupName) = 0
    /\ Payload = OtherReportTo
    /\ DOMAIN ret.headers = {"Content-Security-Policy", "Report-To"}
    /\ ret.headers["Report-To"] = OtherReportTo

(***************************************************************************)
(* C9.  Two calls of Load on the same Policy value.                        *)
(***************************************************************************)
\* C9: the second call of Load on a Policy value has the outcome of the first:
\* both fail or both succeed, and when they succeed the two maps have the same
\* keys, the same Report-To value and Content-Security-Policy values made of the
\* same fragments, whatever the order each call joined them in.
C9_SameOutcomeTwice ==
    (pc = "returned" /\ run = 2) =>
        /\ prev.called
        /\ prev.nilMap <=> ret.nilMap
        /\ (prev.err = NilError) <=> (ret.err = NilError)
        /\ ret.nilMap <=> (ret.err # NilError)
        /\ ~ret.nilMap =>
              /\ DOMAIN ret.headers = prev.keys
              /\ ("Report-To" \in prev.keys => ret.headers["Report-To"] = prev.reportTo)
              /\ JoinedValue
              /\ Range(activeCSPs) = prev.fragments
              /\ Len(activeCSPs) = Cardinality(prev.fragments)

\* a second successful call whose value joins five fragments or more, static
\* and dynamic, next to a Report-To value
C9_Witness ==
    /\ pc = "returned" /\ run = 2
    /\ ~ret.nilMap /\ ~prev.nilMap
    /\ Cardinality(prev.fragments) >= 5
    /\ "Report-To" \in prev.keys
    /\ Range(activeCSPs) = prev.fragments

\* a second call that fails like the first
C9_WitnessFailure ==
    /\ pc = "returned" /\ run = 2
    /\ ret.nilMap /\ prev.nilMap
    /\ ret.err = ErrReportToMismatch

(***************************************************************************)
(* C11.  No partial output.                                                *)
(***************************************************************************)
\* a template text of the Policy parses and fails to execute
SomeTemplateFailsToExecute == \E f \in TemplateFields : pol[f] = TemplateTextNoSuchField

\* nothing has been rendered or stored: both mappings are without keys and no
\* fragment has been built
NothingRendered ==
    /\ DOMAIN cspStaticDirectives = {}
    /\ DOMAIN cspDynamicDirectives = {}
    /\ Len(activeCSPs) = 0

\* C11: Load returns either a header map and no error, or no header map and an
\* error, at each failure point: a template that fails to compile, the report-to
\* validation, a directive that fails to render; and a report-to validation
\* failure is returned before any directive is rendered or stored in the static
\* or the dynamic mapping.
C11_NoPartialOutput ==
    pc = "returned" =>
        /\ \/ ~ret.nilMap /\ ret.err = NilError
                 /\ "Content-Security-Policy" \in DOMAIN ret.headers
           \/ ret.nilMap /\ ret.err # NilError /\ DOMAIN ret.headers = {}
        /\ ~TemplatesCompile => ret.nilMap /\ ret.err = ErrTemplateParse /\ NothingRendered
        /\ FailsValidation => ret.nilMap /\ NothingRendered
        /\ (TemplatesCompile /\ PreFlightError(pol) = NilError /\ SomeTemplateFailsToExecute) =>
              ret.nilMap /\ ret.err = ErrTemplateExecute

\* a validation failure returned with nothing rendered, on a Policy whose
\* directives would render to several fragments
C11_Witness ==
    /\ pc = "returned"
    /\ ret.err = ErrReportToMismatch
    /\ ret.nilMap
    /\ NothingRendered
    /\ UsesDefaultTemplates

\* a directive late in Load fails to render after others were stored: no map
C11_WitnessRender ==
    /\ pc = "returned"
    /\ ret.err = ErrTemplateExecute
    /\ ret.nilMap
    /\ "frame-ancestors" \in DOMAIN cspStaticDirectives
    /\ "report-uri" \in DOMAIN cspStaticDirectives
    /\ cspStaticDirectives["report-uri"] = ""

\* a template that does not compile: no map
C11_WitnessTemplate ==
    /\ pc = "returned"
    /\ ret.err = ErrTemplateParse
    /\ ret.nilMap

====
